---- MODULE Spec2Model ----
(***************************************************************************)
(* EVA - UX Analyzer.  A Figma plugin (host side: code.ts, panel side:     *)
(* ui.html) that sends the serialized selection to an evaluation server    *)
(* (server/server.js) and shows the findings the server recovers from the  *)
(* text-generation reply.                                                  *)
(*                                                                         *)
(* Spec       : the host <-> panel state machine (selection, previews,     *)
(*              analyze, evaluation calls in flight, show-on-canvas).      *)
(* SpecServer : the /analyze route of the server, with the recovery of a   *)
(*              JSON array from the reply text done character by           *)
(*              character.                                                 *)
(* SpecSerialize : extractComponentData applied to trees of every node     *)
(*              kind.                                                      *)
(* LiveSpec   : Spec with the fairness of the event loops.                 *)
(***************************************************************************)
EXTENDS Integers, Sequences, FiniteSets, Bags, TLC

VARIABLES
    selection,          \* figma.currentPage.selection (a list of node ids)
    currentSelection,   \* code.ts: let currentSelection
    previews,           \* updateSelectionInfo calls suspended in exportAsync
    calls,              \* evaluation calls in flight (componentData of each)
    toPanel,            \* figma.ui.postMessage messages not yet handled
    toHost,             \* parent.postMessage messages not yet handled
    notice,             \* the last figma.notify text
    canvas,             \* the nodes the plugin added to the page (a bag)
    btnDisabled,        \* analyzeButton.disabled
    btnLabel,           \* analyzeButton.textContent
    frameName,          \* frameNameEl.textContent
    results,            \* the cards of resultsDiv, in order
    events,             \* number of user inputs so far
    faults,             \* number of failed exports and failed calls so far
    req,                \* server: the request and what the upstream does
    spc,                \* server: position of the /analyze handler
    sent,               \* server: the responses sent for the request
    scene,              \* the nodes of the page, by id
    doc                 \* serializer: the document made of the root

pvars == <<selection, currentSelection, previews, calls, toPanel, toHost,
           notice, canvas, btnDisabled, btnLabel, frameName, results, events,
           faults>>
svars == <<req, spc, sent>>
dvars == <<scene, doc>>
vars == <<pvars, svars, dvars>>

Null == "null"

\* no document made yet
NoDoc == [id |-> Null, children |-> <<>>]

\* ------------------------------------------------------------------ bounds
MaxUserEvents == 3
MaxFaults == 1

\* ------------------------------------------------------------- scene graph
\* Two top-level nodes of the page; "Card" is a frame holding one text.
Page ==
    [A |-> [id |-> "A", name |-> "Card", type |-> "FRAME",
            x |-> 0, y |-> 0, width |-> 10, height |-> 5, visible |-> TRUE,
            opacity |-> 1, layoutMode |-> "VERTICAL",
            paddingTop |-> 8, paddingRight |-> 8, paddingBottom |-> 8,
            paddingLeft |-> 8, itemSpacing |-> 4, children |-> <<"T">>],
     T |-> [id |-> "T", name |-> "Title", type |-> "TEXT",
            x |-> 1, y |-> 1, width |-> 3, height |-> 1, visible |-> TRUE,
            opacity |-> 1, characters |-> "Hi", fontSize |-> [value |-> 10],
            fontName |-> [mixed |-> TRUE], fills |-> [list |-> <<"black">>]],
     B |-> [id |-> "B", name |-> "Button", type |-> "RECTANGLE",
            x |-> 20, y |-> 7, width |-> 4, height |-> 4, visible |-> TRUE,
            opacity |-> 1, fills |-> [mixed |-> TRUE],
            strokes |-> [list |-> <<>>]]]

\* the nodes the serializer and the handlers read
Scene == scene

Roots == {"A", "B"}
Selections == {<<>>, <<"A">>, <<"B">>, <<"A", "B">>}

Has(node, key) == key \in DOMAIN node

\* absoluteBoundingBox of a top-level node
absoluteBoundingBox(id) ==
    [x |-> Scene[id].x, y |-> Scene[id].y,
     width |-> Scene[id].width, height |-> Scene[id].height]

\* ------------------------------------------------------------- serializer
\* figma.mixed: an attribute is held as [value |-> v] / [list |-> l] when it
\* is resolved and as [mixed |-> TRUE] when it is the "mixed" sentinel.
IsMixed(attr) == Has(attr, "mixed")

ContainerTypes == {"FRAME", "GROUP", "COMPONENT", "COMPONENT_SET", "INSTANCE"}

Opt(cond, key, val) == IF cond THEN key :> val ELSE <<>>

RECURSIVE extractLayerData(_)
extractLayerData(id) ==
    LET node == Scene[id]
        baseData ==
            [id |-> node.id, name |-> node.name, type |-> node.type,
             width |-> IF Has(node, "width") THEN node.width ELSE 0,
             height |-> IF Has(node, "height") THEN node.height ELSE 0,
             x |-> node.x, y |-> node.y, visible |-> node.visible,
             children |-> <<>>]
        opacity == Opt(Has(node, "opacity"), "opacity", node.opacity)
        text ==
            IF node.type = "TEXT"
            THEN ("characters" :> node.characters)
                 @@ Opt(~IsMixed(node.fontSize), "fontSize", node.fontSize.value)
                 @@ Opt(~IsMixed(node.fontName), "fontName", node.fontName.value)
            ELSE <<>>
        layout ==
            IF node.type \in ContainerTypes /\ Has(node, "layoutMode")
            THEN ("layoutMode" :> node.layoutMode)
                 @@ Opt(node.layoutMode # "NONE", "padding",
                        [top |-> node.paddingTop, right |-> node.paddingRight,
                         bottom |-> node.paddingBottom, left |-> node.paddingLeft])
                 @@ Opt(node.layoutMode # "NONE", "itemSpacing", node.itemSpacing)
            ELSE <<>>
        kids ==
            IF node.type \in ContainerTypes /\ Has(node, "children")
            THEN "children" :> [i \in 1..Len(node.children) |->
                                    extractLayerData(node.children[i])]
            ELSE <<>>
        fills == Opt(Has(node, "fills") /\ ~IsMixed(node.fills), "fills", node.fills.list)
        strokes == Opt(Has(node, "strokes") /\ ~IsMixed(node.strokes), "strokes",
                       node.strokes.list)
        constraints == Opt(Has(node, "constraints"), "constraints", node.constraints)
        layoutAlign == Opt(Has(node, "layoutAlign"), "layoutAlign", node.layoutAlign)
    IN  layoutAlign @@ constraints @@ strokes @@ fills @@ kids @@ layout @@ text
        @@ opacity @@ baseData

extractComponentData_PaddingAlways(id) ==
    LET node == Scene[id]
        baseData == extractLayerData(id)
        top ==
            [layoutMode |-> IF Has(node, "layoutMode") THEN node.layoutMode ELSE "NONE",
             childrenCount |-> IF Has(node, "children") THEN Len(node.children) ELSE 0]
        layout ==
            IF Has(node, "layoutMode")
            THEN [padding |-> [top |-> node.paddingTop, right |-> node.paddingRight,
                               bottom |-> node.paddingBottom, left |-> node.paddingLeft],
                  itemSpacing |-> node.itemSpacing]
            ELSE <<>>
    IN  layout @@ top @@ baseData

extractComponentData(id) ==
    LET node == Scene[id]
        baseData == extractLayerData(id)
        top ==
            [layoutMode |-> IF Has(node, "layoutMode") THEN node.layoutMode ELSE "NONE",
             childrenCount |-> IF Has(node, "children") THEN Len(node.children) ELSE 0]
        layout ==
            IF Has(node, "layoutMode") /\ node.layoutMode # "NONE"
            THEN [padding |-> [top |-> node.paddingTop, right |-> node.paddingRight,
                               bottom |-> node.paddingBottom, left |-> node.paddingLeft],
                  itemSpacing |-> node.itemSpacing]
            ELSE <<>>
    IN  layout @@ top @@ baseData

\* ------------------------------------------------------ evaluation server
\* What the plugin sees of one evaluation call.  The server answers 200 with
\* the findings recovered from the reply about the document it was sent, or
\* an error body; "network" is fetch itself rejecting.
NoFinding == [heuristic |-> "", issue |-> "", suggestion |-> ""]

\* the findings of the reply for a document: they speak about that document
FindingsFor(componentData) ==
    <<[heuristic |-> "Visual Hierarchy", issue |-> componentData.id,
       suggestion |-> "Increase the contrast"]>>

ErrKeyMissing == "Anthropic API key not configured on server."
ErrUpstream == "Failed to get analysis from AI"
ErrParse == "Failed to parse analysis results from AI."

FetchOutcomes(componentData) ==
    { [kind |-> "network", ok |-> FALSE, error |-> "Failed to fetch",
       body |-> <<>>],
      [kind |-> "http", ok |-> TRUE, error |-> "", body |-> FindingsFor(componentData)],
      [kind |-> "http", ok |-> FALSE, error |-> ErrParse, body |-> <<>>],
      [kind |-> "http", ok |-> FALSE, error |-> "", body |-> <<>>] }

StatusText == "Internal Server Error"

ServerErrorMessage_StatusTextOnly(out) ==
    IF out.kind = "network" THEN out.error ELSE "Server error: " \o StatusText

\* code.ts 54-76: the Error the evaluation call throws for an outcome
ServerErrorMessage(out) ==
    IF out.kind = "network" THEN out.error
    ELSE "Server error: " \o (IF out.error # "" THEN out.error ELSE StatusText)

\* ------------------------------------------------------------- messages
Msg(type, name, preview, finding, message) ==
    [type |-> type, name |-> name, preview |-> preview, finding |-> finding,
     message |-> message]

SelectionInfo(name, preview) == Msg("selection-info", name, preview, NoFinding, "")
AnalysisResult(f) == Msg("analysis-result", "", Null, f, "")
AnalysisError(m) == Msg("analysis-error", "", Null, NoFinding, m)
AnalysisNoResults == Msg("analysis-no-results", "", Null, NoFinding, "")
Analyze == Msg("analyze", "", Null, NoFinding, "")
ShowOnCanvas(f) == Msg("show-on-canvas", "", Null, f, "")
GetInitialSelection == Msg("get-initial-selection", "", Null, NoFinding, "")

\* ------------------------------------------------------------ host side
\* The part of updateSelectionInfo that runs before its first suspension:
\* the new currentSelection, the message posted at once, the notice given,
\* and the node whose preview export is started.
USI_MultipleKeepsFirst(sel) ==
    IF Len(sel) = 0
    THEN [cur |-> Null, post |-> <<SelectionInfo("None", Null)>>,
          note |-> Null, export |-> Null]
    ELSE IF Len(sel) > 1
    THEN [cur |-> sel[1], post |-> <<SelectionInfo("Multiple Selected", Null)>>,
          note |-> "Please select only one element.", export |-> Null]
    ELSE [cur |-> sel[1], post |-> <<>>, note |-> Null, export |-> sel[1]]

USI(sel) ==
    IF Len(sel) = 0
    THEN [cur |-> Null, post |-> <<SelectionInfo("None", Null)>>,
          note |-> Null, export |-> Null]
    ELSE IF Len(sel) > 1
    THEN [cur |-> Null, post |-> <<SelectionInfo("Multiple Selected", Null)>>,
          note |-> "Please select only one element.", export |-> Null]
    ELSE [cur |-> sel[1], post |-> <<>>, note |-> Null, export |-> sel[1]]

\* node.clone(): a copy of the node, placed where the node is
Clone(id) == [kind |-> "clone", finding |-> NoFinding,
              x |-> Scene[id].x, y |-> Scene[id].y]

AddNode(page, n) == page (+) SetToBag({n})
RemoveNode(page, n) == page (-) SetToBag({n})

\* updateSelectionInfo up to `await getFramePreview`, run on the selection
\* `sel`; the clone is made on the page before the export is awaited.
updateSelectionInfo(sel) ==
    LET u == USI(sel) IN
    /\ currentSelection' = u.cur
    /\ toPanel' = toPanel \o u.post
    /\ notice' = IF u.note = Null THEN notice ELSE u.note
    /\ previews' = IF u.export = Null THEN previews ELSE Append(previews, u.export)
    /\ canvas' = IF u.export = Null THEN canvas ELSE AddNode(canvas, Clone(u.export))

RemoveAt(seq, i) == SubSeq(seq, 1, i - 1) \o SubSeq(seq, i + 1, Len(seq))

\* figma.on('selectionchange'): the user changes the selection
SelectionChange(sel) ==
    /\ events < MaxUserEvents
    /\ sel # selection
    /\ events' = events + 1
    /\ selection' = sel
    /\ updateSelectionInfo(sel)
    /\ UNCHANGED <<calls, toHost, btnDisabled, btnLabel, frameName, results, faults>>
    /\ UNCHANGED <<svars, dvars>>

\* getFramePreview resumes after exportAsync and updateSelectionInfo posts
\* the selection-info of the node it was started for.
PreviewDone(i, exported) ==
    /\ i \in 1..Len(previews)
    /\ exported \/ faults < MaxFaults
    /\ faults' = IF exported THEN faults ELSE faults + 1
    /\ LET id == previews[i] IN
        /\ previews' = RemoveAt(previews, i)
        /\ canvas' = IF exported THEN RemoveNode(canvas, Clone(id)) ELSE canvas
        /\ toPanel' = Append(toPanel,
                 SelectionInfo(Scene[id].name, IF exported THEN "data:image/png" ELSE Null))
    /\ UNCHANGED <<selection, currentSelection, calls, toHost, notice, btnDisabled,
                   btnLabel, frameName, results, events>>
    /\ UNCHANGED <<svars, dvars>>

CARD_GAP == 40

Card(f, target) ==
    [kind |-> "card", finding |-> f,
     x |-> absoluteBoundingBox(target).x + absoluteBoundingBox(target).width + CARD_GAP,
     y |-> absoluteBoundingBox(target).y]

\* figma.ui.onmessage, 'analyze': rejected without a selection, otherwise
\* the selection is serialized and the evaluation call is issued.
HandleAnalyze ==
    /\ toHost # <<>>
    /\ Head(toHost).type = "analyze"
    /\ toHost' = Tail(toHost)
    /\ IF currentSelection = Null
       THEN /\ notice' = "No element selected for analysis."
            /\ calls' = calls
       ELSE /\ notice' = "Starting analysis... This may take a moment."
            /\ calls' = Append(calls, extractComponentData(currentSelection))
    /\ UNCHANGED <<selection, currentSelection, previews, toPanel, canvas,
                   btnDisabled, btnLabel, frameName, results, events, faults>>
    /\ UNCHANGED <<svars, dvars>>

AnalyzeOutcome_ErrorThenNoResults(out) ==
    IF ~out.ok
    THEN [post |-> <<AnalysisError(ServerErrorMessage(out)), AnalysisNoResults>>,
          note |-> "Error analyzing component: " \o ServerErrorMessage(out)]
    ELSE IF Len(out.body) > 0
    THEN [post |-> [i \in 1..Len(out.body) |-> AnalysisResult(out.body[i])],
          note |-> "Analysis complete. Suggestions found."]
    ELSE [post |-> <<AnalysisNoResults>>,
          note |-> "Analysis complete. No specific suggestions found."]

\* The messages the analyze handler posts once its evaluation call settles.
AnalyzeOutcome(out) ==
    IF ~out.ok
    THEN [post |-> <<AnalysisError(ServerErrorMessage(out))>>,
          note |-> "Error analyzing component: " \o ServerErrorMessage(out)]
    ELSE IF Len(out.body) > 0
    THEN [post |-> [i \in 1..Len(out.body) |-> AnalysisResult(out.body[i])],
          note |-> "Analysis complete. Suggestions found."]
    ELSE [post |-> <<AnalysisNoResults>>,
          note |-> "Analysis complete. No specific suggestions found."]

\* An evaluation call settles (in any order) and the handler resumes.
FetchReturn(i, out) ==
    /\ i \in 1..Len(calls)
    /\ out \in FetchOutcomes(calls[i])
    /\ out.ok \/ faults < MaxFaults
    /\ faults' = IF out.ok THEN faults ELSE faults + 1
    /\ calls' = RemoveAt(calls, i)
    /\ toPanel' = toPanel \o AnalyzeOutcome(out).post
    /\ notice' = AnalyzeOutcome(out).note
    /\ UNCHANGED <<selection, currentSelection, previews, toHost, canvas,
                   btnDisabled, btnLabel, frameName, results, events>>
    /\ UNCHANGED <<svars, dvars>>

\* figma.ui.onmessage, 'show-on-canvas': the card is built for the finding
\* of the payload and placed next to currentSelection.
HandleShowOnCanvas(built) ==
    /\ toHost # <<>>
    /\ Head(toHost).type = "show-on-canvas"
    /\ toHost' = Tail(toHost)
    /\ IF currentSelection = Null
       THEN /\ notice' = "Cannot place annotation, no element is selected."
            /\ canvas' = canvas
       ELSE IF built
       THEN /\ notice' = "Annotation added"
            /\ canvas' = AddNode(canvas, Card(Head(toHost).finding, currentSelection))
       ELSE /\ notice' = "Failed to create annotation on canvas."
            /\ canvas' = canvas
    /\ UNCHANGED <<selection, currentSelection, previews, calls, toPanel,
                   btnDisabled, btnLabel, frameName, results, events, faults>>
    /\ UNCHANGED <<svars, dvars>>

\* figma.ui.onmessage, 'get-initial-selection'
HandleGetInitialSelection ==
    /\ toHost # <<>>
    /\ Head(toHost).type = "get-initial-selection"
    /\ toHost' = Tail(toHost)
    /\ updateSelectionInfo(selection)
    /\ UNCHANGED <<selection, calls, btnDisabled, btnLabel, frameName, results, events, faults>>
    /\ UNCHANGED <<svars, dvars>>

\* ------------------------------------------------------------ panel side
DisablingNames == {"None", "Multiple Selected", "No Parent Frame"}

\* analyzeButton.onclick
ClickAnalyze ==
    /\ events < MaxUserEvents
    /\ ~btnDisabled
    /\ events' = events + 1
    /\ toHost' = Append(toHost, Analyze)
    /\ btnDisabled' = TRUE
    /\ btnLabel' = "Analyzing..."
    /\ UNCHANGED <<selection, currentSelection, previews, calls, toPanel, notice,
                   canvas, frameName, results, faults>>
    /\ UNCHANGED <<svars, dvars>>

\* showButton.onclick of the i-th card
ClickShow(i) ==
    /\ events < MaxUserEvents
    /\ i \in 1..Len(results)
    /\ results[i].kind = "finding"
    /\ events' = events + 1
    /\ toHost' = Append(toHost, ShowOnCanvas(results[i].finding))
    /\ UNCHANGED <<selection, currentSelection, previews, calls, toPanel, notice,
                   canvas, btnDisabled, btnLabel, frameName, results, faults>>
    /\ UNCHANGED <<svars, dvars>>

ResultCard(kind, f, text) == [kind |-> kind, finding |-> f, text |-> text]

\* window.onmessage of the panel, for the oldest undelivered message
PanelReceive ==
    /\ toPanel # <<>>
    /\ LET msg == Head(toPanel)
           completes == msg.type \in {"analysis-complete", "analysis-error",
                                      "analysis-no-results"}
       IN
        /\ toPanel' = Tail(toPanel)
        /\ frameName' = IF msg.type = "selection-info" THEN msg.name ELSE frameName
        /\ btnDisabled' =
              IF completes THEN FALSE
              ELSE IF msg.type = "selection-info" THEN msg.name \in DisablingNames
              ELSE btnDisabled
        /\ btnLabel' = IF completes THEN "Analyze" ELSE btnLabel
        /\ results' =
              IF msg.type = "analysis-result"
              THEN Append(results, ResultCard("finding", msg.finding, ""))
              ELSE IF msg.type = "analysis-error"
              THEN Append(results, ResultCard("error", NoFinding, "Error: " \o msg.message))
              ELSE IF msg.type = "analysis-no-results"
              THEN Append(results, ResultCard("info", NoFinding, "No issues found."))
              ELSE results
    /\ UNCHANGED <<selection, currentSelection, previews, calls, toHost, notice,
                   canvas, events, faults>>
    /\ UNCHANGED <<svars, dvars>>

\* -------------------------------------------------------- specification
\* The plugin has been started: code.ts ran to its last line (the initial
\* updateSelectionInfo) and the panel posted 'get-initial-selection'.
Init ==
    /\ scene = Page
    /\ selection \in Selections
    /\ currentSelection = USI(selection).cur
    /\ toPanel = USI(selection).post
    /\ notice = USI(selection).note
    /\ previews = IF USI(selection).export = Null THEN <<>> ELSE <<USI(selection).export>>
    /\ canvas = IF USI(selection).export = Null THEN EmptyBag
                ELSE SetToBag({Clone(USI(selection).export)})
    /\ calls = <<>>
    /\ toHost = <<GetInitialSelection>>
    /\ btnDisabled = FALSE
    /\ btnLabel = "Analyze"
    /\ frameName = "None"
    /\ results = <<>>
    /\ events = 0
    /\ faults = 0
    /\ req = Null
    /\ spc = "idle"
    /\ sent = <<>>
    /\ doc = NoDoc

Next ==
    \/ \E sel \in Selections : SelectionChange(sel)
    \/ \E i \in 1..Len(previews), exported \in BOOLEAN : PreviewDone(i, exported)
    \/ HandleAnalyze
    \/ \E i \in 1..Len(calls) : \E out \in FetchOutcomes(calls[i]) : FetchReturn(i, out)
    \/ \E built \in BOOLEAN : HandleShowOnCanvas(built)
    \/ HandleGetInitialSelection
    \/ ClickAnalyze
    \/ \E i \in 1..Len(results) : ClickShow(i)
    \/ PanelReceive

Spec == Init /\ [][Next]_vars

\* ------------------------------------------------------------------ JSON
\* Texts are strings, read character by character.  JSON values are tagged:
\* an object keeps its members in insertion order, as JavaScript does.
JStr(s) == [t |-> "string", v |-> s]
JNum(n) == [t |-> "number", v |-> n]
JNull == [t |-> "null"]
JArr(items) == [t |-> "array", v |-> items]
JObj(members) == [t |-> "object", v |-> members]
Member(k, val) == [k |-> k, val |-> val]

Ch(s, i) == IF i >= 1 /\ i <= Len(s) THEN SubSeq(s, i, i) ELSE ""
StartsWith(s, i, lit) == i + Len(lit) - 1 <= Len(s) /\ SubSeq(s, i, i + Len(lit) - 1) = lit

Digits == <<"0", "1", "2", "3", "4", "5", "6", "7", "8", "9">>
DigitValue(c) == (CHOOSE d \in 1..10 : Digits[d] = c) - 1
IsDigit(c) == \E d \in 1..10 : Digits[d] = c

RECURSIVE NumberText(_)
NumberText(n) ==
    IF n < 10 THEN Digits[n + 1] ELSE NumberText(n \div 10) \o Digits[(n % 10) + 1]

\* JSON.stringify: the quoting of one string
RECURSIVE Escape(_)
Escape(s) ==
    IF s = "" THEN ""
    ELSE LET c == Ch(s, 1)
             e == IF c = "\"" THEN "\\\""
                  ELSE IF c = "\\" THEN "\\\\"
                  ELSE IF c = "\n" THEN "\\n"
                  ELSE IF c = "\t" THEN "\\t"
                  ELSE c
         IN  e \o Escape(SubSeq(s, 2, Len(s)))

Quote(s) == "\"" \o Escape(s) \o "\""

\* JSON.stringify(value), without indentation
RECURSIVE JSONstringify(_), JoinItems(_), JoinMembers(_)
JSONstringify(val) ==
    IF val.t = "string" THEN Quote(val.v)
    ELSE IF val.t = "number" THEN NumberText(val.v)
    ELSE IF val.t = "null" THEN "null"
    ELSE IF val.t = "array" THEN "[" \o JoinItems(val.v) \o "]"
    ELSE "{" \o JoinMembers(val.v) \o "}"
JoinItems(items) ==
    IF items = <<>> THEN ""
    ELSE JSONstringify(Head(items))
         \o (IF Len(items) > 1 THEN "," \o JoinItems(Tail(items)) ELSE "")
JoinMembers(members) ==
    IF members = <<>> THEN ""
    ELSE Quote(Head(members).k) \o ":" \o JSONstringify(Head(members).val)
         \o (IF Len(members) > 1 THEN "," \o JoinMembers(Tail(members)) ELSE "")

\* JSON.parse: a result is [ok, v, pos], pos the index after what was read.
\* Numbers are unsigned integers; \u escapes are not read.
Parsed(val, pos) == [ok |-> TRUE, v |-> val, pos |-> pos]
SyntaxError == [ok |-> FALSE, v |-> JNull, pos |-> 0]

RECURSIVE SkipWs(_, _)
SkipWs(s, i) == IF Ch(s, i) \in {" ", "\n", "\t"} THEN SkipWs(s, i + 1) ELSE i

\* the characters of a string literal after its opening quote
RECURSIVE ScanString(_, _, _)
ScanString(s, i, acc) ==
    LET c == Ch(s, i) IN
    IF c = "" \/ c = "\n" \/ c = "\t" THEN SyntaxError
    ELSE IF c = "\"" THEN Parsed(JStr(acc), i + 1)
    ELSE IF c = "\\"
    THEN LET e == Ch(s, i + 1) IN
         IF e = "n" THEN ScanString(s, i + 2, acc \o "\n")
         ELSE IF e = "t" THEN ScanString(s, i + 2, acc \o "\t")
         ELSE IF e \in {"\"", "\\", "/"} THEN ScanString(s, i + 2, acc \o e)
         ELSE SyntaxError
    ELSE ScanString(s, i + 1, acc \o c)

RECURSIVE ScanNumber(_, _, _)
ScanNumber(s, i, acc) ==
    IF IsDigit(Ch(s, i)) THEN ScanNumber(s, i + 1, acc * 10 + DigitValue(Ch(s, i)))
    ELSE Parsed(JNum(acc), i)

\* obj[k] = val on an ordered member list
SetMember(members, k, val) ==
    IF \E m \in 1..Len(members) : members[m].k = k
    THEN [m \in 1..Len(members) |->
             IF members[m].k = k THEN Member(k, val) ELSE members[m]]
    ELSE Append(members, Member(k, val))

RECURSIVE ParseValue(_, _), ParseElements(_, _, _), ParseMembers(_, _, _)
ParseValue(s, i) ==
    LET c == Ch(s, i) IN
    IF c = "\"" THEN ScanString(s, i + 1, "")
    ELSE IF IsDigit(c) THEN ScanNumber(s, i, 0)
    ELSE IF StartsWith(s, i, "null") THEN Parsed(JNull, i + 4)
    ELSE IF c = "["
    THEN IF Ch(s, SkipWs(s, i + 1)) = "]"
         THEN Parsed(JArr(<<>>), SkipWs(s, i + 1) + 1)
         ELSE ParseElements(s, SkipWs(s, i + 1), <<>>)
    ELSE IF c = "{"
    THEN IF Ch(s, SkipWs(s, i + 1)) = "}"
         THEN Parsed(JObj(<<>>), SkipWs(s, i + 1) + 1)
         ELSE ParseMembers(s, SkipWs(s, i + 1), <<>>)
    ELSE SyntaxError
ParseElements(s, i, acc) ==
    LET r == ParseValue(s, i)
        j == SkipWs(s, r.pos)
    IN  IF ~r.ok THEN SyntaxError
        ELSE IF Ch(s, j) = "," THEN ParseElements(s, SkipWs(s, j + 1), Append(acc, r.v))
        ELSE IF Ch(s, j) = "]" THEN Parsed(JArr(Append(acc, r.v)), j + 1)
        ELSE SyntaxError
ParseMembers(s, i, acc) ==
    LET k == IF Ch(s, i) = "\"" THEN ScanString(s, i + 1, "") ELSE SyntaxError
        c == SkipWs(s, k.pos)
        r == IF k.ok /\ Ch(s, c) = ":" THEN ParseValue(s, SkipWs(s, c + 1)) ELSE SyntaxError
        j == SkipWs(s, r.pos)
    IN  IF ~r.ok THEN SyntaxError
        ELSE IF Ch(s, j) = ","
        THEN ParseMembers(s, SkipWs(s, j + 1), SetMember(acc, k.v.v, r.v))
        ELSE IF Ch(s, j) = "}" THEN Parsed(JObj(SetMember(acc, k.v.v, r.v)), j + 1)
        ELSE SyntaxError

JSONparse(s) ==
    LET r == ParseValue(s, SkipWs(s, 1)) IN
    IF r.ok /\ SkipWs(s, r.pos) = Len(s) + 1 THEN r ELSE SyntaxError

\* --------------------------------------------------- the /analyze route
\* A TLA+ string cannot hold the character U+0060; "~" stands for it, so that
\* "~~~" is the three-backtick fence.
Fence == "~~~"

FenceAt_AnyFence(s, i) ==
    IF StartsWith(s, i, Fence \o "json") THEN 7
    ELSE IF StartsWith(s, i, Fence) THEN 3
    ELSE 0

\* responseContent.replace(/```json\n|\n```$|```\n|\n```/g, ''): the length
\* of what the pattern matches at index i (the first alternative that
\* matches there), 0 when none does.
FenceAt(s, i) ==
    IF StartsWith(s, i, Fence \o "json\n") THEN 8
    ELSE IF StartsWith(s, i, "\n" \o Fence) /\ i + 3 = Len(s) THEN 4
    ELSE IF StartsWith(s, i, Fence \o "\n") THEN 4
    ELSE IF StartsWith(s, i, "\n" \o Fence) THEN 4
    ELSE 0

\* the global replace from index i on: the leftmost match is removed and the
\* scan goes on after it
RECURSIVE StripFrom(_, _)
StripFrom(s, i) ==
    LET starts == {j \in i..Len(s) : FenceAt(s, j) > 0}
        j == CHOOSE m \in starts : \A n \in starts : m <= n
    IN  IF starts = {} THEN SubSeq(s, i, Len(s))
        ELSE SubSeq(s, i, j - 1) \o StripFrom(s, j + FenceAt(s, j))

StripFences(s) == StripFrom(s, 1)

Min(S) == CHOOSE m \in S : \A n \in S : m <= n
Max(S) == CHOOSE m \in S : \A n \in S : m >= n

jsonMatch_Anchored(s) ==
    LET closes == {i \in 2..Len(s) : Ch(s, i) = "]"}
    IN  IF Ch(s, 1) # "[" \/ closes = {} THEN [found |-> FALSE, text |-> ""]
        ELSE [found |-> TRUE, text |-> SubSeq(s, 1, Max(closes))]

\* responseContent.match(/\[[\s\S]*\]/): from the first '[' to the last ']'
jsonMatch(s) ==
    LET opens == {i \in 1..Len(s) : Ch(s, i) = "["}
        closes == IF opens = {} THEN {}
                  ELSE {i \in (Min(opens) + 1)..Len(s) : Ch(s, i) = "]"}
    IN  IF closes = {} THEN [found |-> FALSE, text |-> ""]
        ELSE [found |-> TRUE, text |-> SubSeq(s, Min(opens), Max(closes))]

Undefined == [t |-> "undefined"]

\* obj[k] of a parsed object
Get(obj, k) ==
    IF \E m \in 1..Len(obj.v) : obj.v[m].k = k
    THEN obj.v[CHOOSE m \in 1..Len(obj.v) : obj.v[m].k = k].val
    ELSE Undefined

\* JavaScript truthiness and `typeof x === 'object'` and `k in x`
Truthy(val) ==
    /\ val.t \notin {"undefined", "null"}
    /\ ~(val.t = "number" /\ val.v = 0)
    /\ ~(val.t = "string" /\ val.v = "")
TypeofObject(val) == val.t \in {"object", "array", "null"}
In(k, val) == val.t = "object" /\ \E m \in 1..Len(val.v) : val.v[m].k = k

\* the predicate of analysisResults.filter
IsValidResult(result) ==
    /\ Truthy(result)
    /\ TypeofObject(result)
    /\ In("heuristic", result)
    /\ In("issue", result)
    /\ In("suggestion", result)

Response(status, body) == [status |-> status, body |-> body]

MissingField_ComponentDataOnly(body) == ~Truthy(body.componentData)

\* if (!componentData || !principles)
MissingField(body) == ~Truthy(body.componentData) \/ ~Truthy(body.principles)

MsgNoArray == "No valid JSON array found in response"
MsgNotArray == "Response is not an array"
MsgNoValid == "No valid analysis results found"
MsgSyntax == "Unexpected token in JSON"

\* res.status(400) of the validation
BadRequest ==
    Response(400, JObj(<<Member("error",
                 JStr("Missing componentData or principles in request body"))>>))
\* res.status(500) of the API key check
KeyMissing == Response(500, JObj(<<Member("error", JStr(ErrKeyMissing))>>))
\* the inner catch (parseError) and the outer catch (error)
InnerCatch(message, responseContent) ==
    Response(500, JObj(<<Member("error", JStr(ErrParse)),
                         Member("details", JStr(message)),
                         Member("rawResponse", JStr(responseContent))>>))
OuterCatch(message) ==
    Response(500, JObj(<<Member("error", JStr(ErrUpstream)),
                         Member("details", JStr(message))>>))

\* The handler from the reply text on: strip, match, parse, filter, respond.
AfterReply(text) ==
    LET responseContent == StripFences(text)
        match == jsonMatch(responseContent)
        analysisResults == JSONparse(match.text)
        validResults == SelectSeq(analysisResults.v.v, IsValidResult)
    IN  IF ~match.found THEN OuterCatch(MsgNoArray)
        ELSE IF ~analysisResults.ok THEN InnerCatch(MsgSyntax, responseContent)
        ELSE IF analysisResults.v.t # "array" THEN InnerCatch(MsgNotArray, responseContent)
        ELSE IF Len(validResults) = 0 THEN InnerCatch(MsgNoValid, responseContent)
        ELSE Response(200, JArr(validResults))

\* what the plugin's fetch sees of a response of the server
FromResponse(resp) ==
    [kind |-> "http", ok |-> resp.status \in 200..299,
     error |-> IF Truthy(Get(resp.body, "error")) THEN Get(resp.body, "error").v ELSE "",
     body |-> IF resp.status \in 200..299 THEN resp.body.v ELSE <<>>]

\* ------------------------------------------------------- server inputs
MaxEntries == 2

Finding(h, i, g) ==
    JObj(<<Member("heuristic", JStr(h)), Member("issue", JStr(i)),
           Member("suggestion", JStr(g))>>)

\* what a reply may hold as an entry of its array
Candidates ==
    { Finding("Contrast", "Title", "Darken"),
      Finding("a]", "~~~", "x\n~~~\"\\"),
      JObj(<<Member("heuristic", JStr("A")), Member("issue", JStr("B"))>>),
      JObj(<<Member("heuristic", JNum(1)), Member("issue", JNull),
             Member("suggestion", JStr("C"))>>),
      Finding("", "B", "C"),
      JNull,
      JStr("x") }

RECURSIVE Lists(_, _)
Lists(S, n) ==
    IF n = 0 THEN {<<>>}
    ELSE Lists(S, n - 1) \cup
         {Append(l, e) : l \in {k \in Lists(S, n - 1) : Len(k) = n - 1}, e \in S}

Preambles == {"", "Here you go:\n", "See [1]:\n"}
Fences == {<<"", "">>, <<Fence \o "json\n", "\n" \o Fence>>,
           <<Fence \o "\n", "\n" \o Fence>>, <<Fence \o "js\n", "\n" \o Fence>>}
Postambles == {"", "\nHope that helps!", "\n[end]"}

Wrapped(pre, fence, entries, post) ==
    [kind |-> "text", built |-> TRUE, pre |-> pre, fence |-> fence,
     entries |-> entries, post |-> post,
     text |-> pre \o fence[1] \o JSONstringify(JArr(entries)) \o fence[2] \o post]

Literal(text) ==
    [kind |-> "text", built |-> FALSE, pre |-> "", fence |-> <<"", "">>,
     entries |-> <<>>, post |-> "", text |-> text]

Throws ==
    [kind |-> "throws", built |-> FALSE, pre |-> "", fence |-> <<"", "">>,
     entries |-> <<>>, post |-> "", text |-> "Connection error."]

Upstreams ==
    {Throws}
    \cup {Literal(t) : t \in {"no array here", "[]", "[abc", "] then [",
                              "[\n  1,\n  {\"heuristic\": \"A\"}\n]"}}
    \cup {Wrapped(pre, f, l, post) :
            pre \in Preambles, f \in Fences, l \in Lists(Candidates, MaxEntries),
            post \in Postambles}

BodyValues ==
    [componentData : {Undefined, JNull, JObj(<<Member("id", JStr("A"))>>)},
     principles : {Undefined, JStr(""), JStr("rubric")}]

GoodBody == [componentData |-> JObj(<<Member("id", JStr("A"))>>),
             principles |-> JStr("rubric")]

Requests ==
    {[body |-> b, apiKey |-> k, upstream |-> u] :
        b \in BodyValues, k \in BOOLEAN,
        u \in {Throws, Wrapped("", <<"", "">>, <<Finding("Contrast", "Title", "Darken")>>, "")}}
    \cup {[body |-> GoodBody, apiKey |-> TRUE, upstream |-> u] : u \in Upstreams}

\* ------------------------------------------------------- server actions
\* app.post('/analyze') up to `await anthropic.messages.create`
Receive ==
    /\ spc = "start"
    /\ IF MissingField(req.body)
       THEN sent' = Append(sent, BadRequest) /\ spc' = "done"
       ELSE IF ~req.apiKey
       THEN sent' = Append(sent, KeyMissing) /\ spc' = "done"
       ELSE sent' = sent /\ spc' = "awaiting"
    /\ UNCHANGED req
    /\ UNCHANGED <<pvars, dvars>>

\* the upstream call rejects: the outer catch answers
UpstreamThrows ==
    /\ spc = "awaiting"
    /\ req.upstream.kind = "throws"
    /\ sent' = Append(sent, OuterCatch(req.upstream.text))
    /\ spc' = "done"
    /\ UNCHANGED req
    /\ UNCHANGED <<pvars, dvars>>

\* the upstream call resolves with a reply text
UpstreamReplies ==
    /\ spc = "awaiting"
    /\ req.upstream.kind = "text"
    /\ sent' = Append(sent, AfterReply(req.upstream.text))
    /\ spc' = "done"
    /\ UNCHANGED req
    /\ UNCHANGED <<pvars, dvars>>

InitServer ==
    /\ req \in Requests
    /\ spc = "start"
    /\ sent = <<>>
    /\ selection = <<>>
    /\ currentSelection = Null
    /\ previews = <<>>
    /\ calls = <<>>
    /\ toPanel = <<>>
    /\ toHost = <<>>
    /\ notice = Null
    /\ canvas = EmptyBag
    /\ btnDisabled = FALSE
    /\ btnLabel = "Analyze"
    /\ frameName = "None"
    /\ results = <<>>
    /\ events = 0
    /\ faults = 0
    /\ scene = Page
    /\ doc = NoDoc

NextServer == Receive \/ UpstreamThrows \/ UpstreamReplies

SpecServer == InitServer /\ [][NextServer]_vars

\* ---------------------------------------------------- serializer inputs
\* The kinds of node a tree is made of, by the attributes each kind has in
\* the host: frames carry a layout mode and paddings, groups do not; boolean
\* operations and sections have children without being one of the five
\* container types; sections and slices have no opacity.
Kinds == {"FRAME_AUTO", "FRAME_NONE", "GROUP", "BOOLEAN_OPERATION", "SECTION",
          "TEXT", "SLICE"}
LeafKinds == {"TEXT", "SLICE"}

NodeOf(kind, id, kids) ==
    LET base == [id |-> id, name |-> kind, x |-> 1, y |-> 2, width |-> 3,
                 height |-> 4, visible |-> TRUE]
    IN  IF kind = "FRAME_AUTO"
        THEN [type |-> "FRAME", opacity |-> 1, layoutMode |-> "VERTICAL",
              paddingTop |-> 8, paddingRight |-> 6, paddingBottom |-> 4,
              paddingLeft |-> 2, itemSpacing |-> 5, children |-> kids] @@ base
        ELSE IF kind = "FRAME_NONE"
        THEN [type |-> "FRAME", opacity |-> 1, layoutMode |-> "NONE",
              paddingTop |-> 0, paddingRight |-> 0, paddingBottom |-> 0,
              paddingLeft |-> 0, itemSpacing |-> 0, children |-> kids] @@ base
        ELSE IF kind = "GROUP"
        THEN [type |-> "GROUP", opacity |-> 1, children |-> kids] @@ base
        ELSE IF kind = "BOOLEAN_OPERATION"
        THEN [type |-> "BOOLEAN_OPERATION", opacity |-> 1, children |-> kids,
              fills |-> [list |-> <<"black">>]] @@ base
        ELSE IF kind = "SECTION"
        THEN [type |-> "SECTION", children |-> kids,
              fills |-> [list |-> <<"white">>]] @@ base
        ELSE IF kind = "TEXT"
        THEN [type |-> "TEXT", opacity |-> 1, characters |-> "Hi",
              fontSize |-> [value |-> 10], fontName |-> [mixed |-> TRUE]] @@ base
        ELSE [type |-> "SLICE"] @@ base

ChildOrders == {<<>>, <<"K1">>, <<"K1", "K2">>, <<"K2", "K1">>}

\* a tree under the root "R": up to two children "K1", "K2" in either order,
\* and a grandchild "G" under "K1"
SceneOf(rk, order, k1, k1kids, k2) ==
    LET kids == IF rk \in LeafKinds THEN <<>> ELSE order
        has(id) == \E i \in 1..Len(kids) : kids[i] = id
        grand == IF has("K1") /\ k1 \notin LeafKinds THEN k1kids ELSE <<>>
    IN  ("R" :> NodeOf(rk, "R", kids))
        @@ (IF has("K1") THEN "K1" :> NodeOf(k1, "K1", grand) ELSE <<>>)
        @@ (IF has("K2") THEN "K2" :> NodeOf(k2, "K2", <<>>) ELSE <<>>)
        @@ (IF grand # <<>> THEN "G" :> NodeOf("TEXT", "G", <<>>) ELSE <<>>)

Scenes ==
    {SceneOf(rk, order, k1, k1kids, k2) :
        rk \in Kinds, order \in ChildOrders, k1 \in Kinds,
        k1kids \in {<<>>, <<"G">>}, k2 \in LeafKinds}

\* --------------------------------------------------- serializer actions
\* the analyze handler serializes the selected root
Serialize ==
    /\ doc = NoDoc
    /\ doc' = extractComponentData("R")
    /\ UNCHANGED scene
    /\ UNCHANGED <<pvars, svars>>

InitSerialize ==
    /\ scene \in Scenes
    /\ doc = NoDoc
    /\ req = Null
    /\ spc = "idle"
    /\ sent = <<>>
    /\ selection = <<"R">>
    /\ currentSelection = "R"
    /\ previews = <<>>
    /\ calls = <<>>
    /\ toPanel = <<>>
    /\ toHost = <<>>
    /\ notice = Null
    /\ canvas = EmptyBag
    /\ btnDisabled = FALSE
    /\ btnLabel = "Analyze"
    /\ frameName = "None"
    /\ results = <<>>
    /\ events = 0
    /\ faults = 0

NextSerialize == Serialize

SpecSerialize == InitSerialize /\ [][NextSerialize]_vars

\* ------------------------------------------------------------ properties
Quiescent == toHost = <<>> /\ toPanel = <<>> /\ calls = <<>> /\ previews = <<>>

NoticeRejected == "No element selected for analysis."

FailureNotices ==
    {NoticeRejected} \cup
    {"Error analyzing component: " \o ServerErrorMessage(out) :
        out \in {o \in FetchOutcomes(extractComponentData("A")) : ~o.ok}}

\* C1: every failure path of an analyze action re-enables the Analyze control.
\* Stated on finished runs: when nothing is in flight any more and the last
\* thing the host told the user is that the analysis was rejected or failed,
\* the panel has received the message that puts the button back (enabled,
\* labelled "Analyze").
C1_EveryFailureReenables ==
    (Quiescent /\ notice \in FailureNotices) => btnLabel = "Analyze"

\* C2: a finding is displayed only if the root it was produced for is the
\* currently selected root at the moment the panel displays it.
C2_DisplayMatchesSelection ==
    [][(Len(results') > Len(results) /\ results'[Len(results')].kind = "finding")
        => results'[Len(results')].finding.issue = currentSelection']_vars

SelectionInfoPending ==
    \/ \E i \in 1..Len(toPanel) : toPanel[i].type = "selection-info"
    \/ \E i \in 1..Len(toHost) : toHost[i].type = "get-initial-selection"
    \/ previews # <<>>

NeverClicked == btnLabel = "Analyze" /\ results = <<>>

\* C3: with only selection changes and preview completions at play, once the
\* panel has handled every selection-info message the Analyze control is
\* disabled exactly when the selection is empty or multiple.
C3_DisabledUnlessSingle ==
    (NeverClicked /\ ~SelectionInfoPending) => (btnDisabled <=> Len(selection) # 1)

AnalyzeHandled ==
    /\ toHost # <<>>
    /\ Head(toHost).type = "analyze"
    /\ toHost' = Tail(toHost)

\* C4: an 'analyze' message handled while the selection is empty or multiple
\* is rejected (notice, nothing posted, no evaluation call), and every
\* evaluation call is made with the document of the one node selected at the
\* moment the message is handled.
C4_ExactlyOneRoot ==
    [][/\ (AnalyzeHandled /\ Len(selection) # 1)
            => (calls' = calls /\ toPanel' = toPanel /\ notice' = NoticeRejected)
       /\ Len(calls') > Len(calls)
            => /\ AnalyzeHandled
               /\ Len(selection) = 1
               /\ calls' = Append(calls, extractComponentData(selection[1]))]_vars

\* a call is in flight and a later analyze has been rejected
C4_Witness ==
    /\ calls # <<>>
    /\ notice = NoticeRejected
    /\ Len(selection) # 1

Cards == {n \in BagToSet(canvas) : n.kind = "card"}

\* C5: a card made by show-on-canvas stands to the right of the node whose
\* analysis produced the finding, at that node's top edge.
C5_AnchoredToAnalyzedNode ==
    \A c \in Cards :
        /\ c.x = absoluteBoundingBox(c.finding.issue).x
                 + absoluteBoundingBox(c.finding.issue).width + CARD_GAP
        /\ c.y = absoluteBoundingBox(c.finding.issue).y

\* ---------------------------------------------------- server properties
Answered == spc = "done" /\ Len(sent) = 1

\* the request got past the validation and the key check and a reply came
Replied ==
    /\ Answered
    /\ ~MissingField(req.body)
    /\ req.apiKey
    /\ req.upstream.kind = "text"

\* a Finding of the data model: the three fields, each a non-empty string
FindingKeys == {"heuristic", "issue", "suggestion"}
IsFinding(val) ==
    /\ val.t = "object"
    /\ \A k \in FindingKeys : Get(val, k).t = "string" /\ Get(val, k).v # ""

\* C6: every entry of a list sent with HTTP 200 has heuristic, issue and
\* suggestion as non-empty strings (anything else was dropped).
C6_OnlyWellFormedFindings ==
    (Answered /\ sent[1].status = 200)
        => \A e \in 1..Len(sent[1].body.v) : IsFinding(sent[1].body.v[e])

\* the error the plugin shows for a response
Surfaced(resp) == ServerErrorMessage(FromResponse(resp))
Details(resp) == Get(resp.body, "details")

NoArrayCase(text) == ~jsonMatch(StripFences(text)).found
ZeroValidCase(text) ==
    LET parsed == JSONparse(jsonMatch(StripFences(text)).text) IN
    /\ jsonMatch(StripFences(text)).found
    /\ parsed.ok
    /\ \A e \in 1..Len(parsed.v.v) :
          ~(parsed.v.v[e].t = "object" /\ \A k \in FindingKeys : In(k, parsed.v.v[e]))

\* C7: a reply without a bracketed array and a reply whose array holds no
\* valid finding both fail, each with the reason of its own kind ("no array
\* here", "[]"), and the two reasons differ in the response and in the error
\* the plugin surfaces.
C7_FailuresDistinguishable ==
    Replied =>
        /\ NoArrayCase(req.upstream.text) =>
              /\ sent[1].status = 500
              /\ Details(sent[1]) = Details(AfterReply("no array here"))
              /\ Details(sent[1]) # Details(AfterReply("[]"))
              /\ Surfaced(sent[1]) = Surfaced(AfterReply("no array here"))
              /\ Surfaced(sent[1]) # Surfaced(AfterReply("[]"))
        /\ ZeroValidCase(req.upstream.text) =>
              /\ sent[1].status = 500
              /\ Details(sent[1]) = Details(AfterReply("[]"))
              /\ Details(sent[1]) # Details(AfterReply("no array here"))
              /\ Surfaced(sent[1]) = Surfaced(AfterReply("[]"))
              /\ Surfaced(sent[1]) # Surfaced(AfterReply("no array here"))

C7_Witness ==
    /\ Replied
    /\ ZeroValidCase(req.upstream.text)
    /\ req.upstream.text # "[]"
    /\ Surfaced(sent[1]) = "Server error: Failed to parse analysis results from AI."

HasErrorAndDetails(resp) == In("error", resp.body) /\ In("details", resp.body)
NonEmptyList(resp) == resp.body.t = "array" /\ Len(resp.body.v) > 0

\* C8 as claimed: one response; 400 when a field is missing (absent, or
\* falsy as the handler tests it), otherwise 200 with a non-empty list or 500
\* with error and details.
C8_StatusContract ==
    /\ Len(sent) <= 1
    /\ spc = "done" =>
        /\ Len(sent) = 1
        /\ IF ~Truthy(req.body.componentData) \/ ~Truthy(req.body.principles)
           THEN sent[1].status = 400
           ELSE \/ sent[1].status = 200 /\ NonEmptyList(sent[1])
                \/ sent[1].status = 500 /\ HasErrorAndDetails(sent[1])

\* the entries of the reply that do recover, by the steps of the handler
Recovered(text) ==
    LET match == jsonMatch(StripFences(text))
        parsed == JSONparse(match.text)
    IN  IF match.found /\ parsed.ok THEN SelectSeq(parsed.v.v, IsValidResult) ELSE <<>>

\* C8 amended: one response; 400 when componentData or principles is missing
\* (absent or falsy); otherwise 500 with an error only when no API key is configured;
\* otherwise 200 with the recovered list when it is not empty, and 500 with
\* error and details on a parser or upstream failure.
C8_StatusContractAmended ==
    /\ Len(sent) <= 1
    /\ spc = "done" =>
        /\ Len(sent) = 1
        /\ IF ~Truthy(req.body.componentData) \/ ~Truthy(req.body.principles)
           THEN sent[1].status = 400
           ELSE IF ~req.apiKey
           THEN /\ sent[1].status = 500
                /\ In("error", sent[1].body)
                /\ ~In("details", sent[1].body)
           ELSE IF req.upstream.kind = "text" /\ Recovered(req.upstream.text) # <<>>
           THEN sent[1] = Response(200, JArr(Recovered(req.upstream.text)))
           ELSE sent[1].status = 500 /\ HasErrorAndDetails(sent[1])

\* a complete request answered by a server without an API key
C8_Witness ==
    /\ Answered
    /\ Truthy(req.body.componentData)
    /\ Truthy(req.body.principles)
    /\ ~req.apiKey
    /\ sent[1].status = 500

\* the reply is nothing but JSON.stringify of a list of well-formed findings
CleanReply ==
    /\ Replied
    /\ req.upstream.built
    /\ req.upstream.pre = "" /\ req.upstream.post = ""
    /\ req.upstream.fence = <<"", "">>
    /\ \A e \in 1..Len(req.upstream.entries) : IsFinding(req.upstream.entries[e])

\* C9 as claimed: recovery gives back any list of well-formed findings.
C9_CleanRoundTrip ==
    CleanReply => sent[1] = Response(200, JArr(req.upstream.entries))

\* C9 amended: recovery gives back any non-empty list of well-formed
\* findings, same entries in the same order.
C9_CleanRoundTripNonEmpty ==
    (CleanReply /\ req.upstream.entries # <<>>)
        => sent[1] = Response(200, JArr(req.upstream.entries))

C9_Witness ==
    /\ CleanReply
    /\ Len(req.upstream.entries) = 2
    /\ req.upstream.entries[1] = Finding("a]", "~~~", "x\n~~~\"\\")
    /\ req.upstream.entries[2] = Finding("Contrast", "Title", "Darken")
    /\ sent[1].status = 200

HasChar(s, c) == \E i \in 1..Len(s) : Ch(s, i) = c

\* the result of a recovery: the status with the list or the failure reason
Outcome(resp) ==
    [status |-> resp.status,
     value |-> IF resp.status = 200 THEN resp.body ELSE Details(resp)]

BareArray == JSONstringify(JArr(req.upstream.entries))

SameAsBare ==
    /\ jsonMatch(StripFences(req.upstream.text)).text = StripFences(BareArray)
    /\ Outcome(sent[1]) = Outcome(AfterReply(BareArray))

\* C10 as claimed: whatever the preamble, fence and postamble around the
\* array, recovery takes the array out and gives what it gives on the bare
\* array text.
C10_WrapperDiscarded ==
    (Replied /\ req.upstream.built) => SameAsBare

\* C10 amended: the same, for a preamble without '[' and a postamble
\* without ']'.
C10_WrapperDiscardedNoBrackets ==
    (/\ Replied
     /\ req.upstream.built
     /\ ~HasChar(req.upstream.pre, "[")
     /\ ~HasChar(req.upstream.post, "]")) => SameAsBare

C10_Witness ==
    /\ Replied
    /\ req.upstream.built
    /\ req.upstream.pre = "Here you go:\n"
    /\ req.upstream.fence = <<Fence \o "json\n", "\n" \o Fence>>
    /\ req.upstream.post = "\nHope that helps!"
    /\ req.upstream.entries = <<Finding("a]", "~~~", "x\n~~~\"\\")>>
    /\ sent[1] = Response(200, JArr(req.upstream.entries))

\* ------------------------------------------------- serializer properties
\* the nodes of a document, the root included
RECURSIVE DocNodes(_)
DocNodes(d) == {d} \cup UNION {DocNodes(d.children[i]) : i \in 1..Len(d.children)}

RECURSIVE SumSeq(_)
SumSeq(ns) == IF ns = <<>> THEN 0 ELSE Head(ns) + SumSeq(Tail(ns))

RECURSIVE CountDoc(_)
CountDoc(d) == 1 + SumSeq([i \in 1..Len(d.children) |-> CountDoc(d.children[i])])

SourceChildren(id) == IF Has(Scene[id], "children") THEN Scene[id].children ELSE <<>>

RECURSIVE SubtreeCount(_)
SubtreeCount(id) ==
    1 + SumSeq([i \in 1..Len(SourceChildren(id)) |-> SubtreeCount(SourceChildren(id)[i])])

\* C11: in the document made of any tree, each node lists its children in
\* the order of the source child list and the document has as many nodes as
\* the source subtree.
C11_OrderAndCount ==
    doc # NoDoc =>
        /\ CountDoc(doc) = SubtreeCount("R")
        /\ \A n \in DocNodes(doc) :
              [i \in 1..Len(n.children) |-> n.children[i].id] = SourceChildren(n.id)

NumericFields == {"width", "height", "x", "y", "opacity"}

\* C12: every node of the document has width, height, x, y and opacity, each
\* a number: the source value when the source has the attribute, otherwise 0
\* for the geometry and 1 for the opacity.
C12_NumericDefaults ==
    doc # NoDoc =>
        \A n \in DocNodes(doc) :
            /\ NumericFields \subseteq DOMAIN n
            /\ \A k \in NumericFields :
                  n[k] = IF Has(Scene[n.id], k) THEN Scene[n.id][k]
                         ELSE IF k = "opacity" THEN 1 ELSE 0

LayoutOff(id) == ~Has(Scene[id], "layoutMode") \/ Scene[id].layoutMode = "NONE"

\* C13: in every node of the document, the root included, padding and
\* itemSpacing are absent when the source has no layout mode or the mode
\* "NONE", and a padding that is present has its four sides.
C13_LayoutOnlyWhenAuto ==
    doc # NoDoc =>
        \A n \in DocNodes(doc) :
            /\ LayoutOff(n.id) => ("padding" \notin DOMAIN n /\ "itemSpacing" \notin DOMAIN n)
            /\ "padding" \in DOMAIN n =>
                  /\ DOMAIN n.padding = {"top", "right", "bottom", "left"}
                  /\ n.padding = [top |-> Scene[n.id].paddingTop,
                                  right |-> Scene[n.id].paddingRight,
                                  bottom |-> Scene[n.id].paddingBottom,
                                  left |-> Scene[n.id].paddingLeft]

\* a root frame without auto layout holding an auto-layout frame: the child
\* has its padding and spacing, the root has neither
C13_Witness ==
    /\ doc # NoDoc
    /\ Scene["R"].type = "FRAME"
    /\ Scene["R"].layoutMode = "NONE"
    /\ "padding" \notin DOMAIN doc
    /\ Len(doc.children) = 2
    /\ "padding" \in DOMAIN doc.children[2]
    /\ doc.children[2].itemSpacing = 5

\* ------------------------------------------------- more plugin properties
Clones == {n \in BagToSet(canvas) : n.kind = "clone"}

\* C14: the plugin leaves nothing on the canvas but the cards made by
\* show-on-canvas: a clone made for a preview is on the page only while its
\* export is running, so once no export is pending every node the plugin
\* added is a card.
C14_OnlyCardsRemain ==
    /\ BagCardinality(canvas) - Len(previews)
          = BagCardinality([n \in Cards |-> CopiesIn(n, canvas)])
    /\ previews = <<>> => Clones = {}

\* the error string the claim gives for the outcome of a call that failed
\* with an HTTP status: the server's error field when it has one, otherwise
\* the status text
ExpectedHttpError(out) ==
    "Server error: " \o (IF out.error # "" THEN out.error ELSE "Internal Server Error")

LiveSpec ==
    /\ Spec
    /\ WF_vars(HandleAnalyze)
    /\ WF_vars(HandleGetInitialSelection)
    /\ WF_vars(\E built \in BOOLEAN : HandleShowOnCanvas(built))
    /\ WF_vars(\E i \in 1..Len(previews), exported \in BOOLEAN : PreviewDone(i, exported))
    /\ WF_vars(\E i \in 1..Len(calls) : \E out \in FetchOutcomes(calls[i]) : FetchReturn(i, out))
    /\ WF_vars(PanelReceive)

ResultsPosted == \E i \in 1..Len(toPanel) : toPanel[i].type = "analysis-result"

\* C16: once the button has been disabled by a click and the host has posted
\* the findings of a successful analysis, the panel eventually has the
\* button enabled again and labelled "Analyze", with no further user action.
C16_ReenabledAfterSuccess ==
    (btnLabel = "Analyzing..." /\ ResultsPosted) ~> (btnLabel = "Analyze" /\ ~btnDisabled)

\* the name the panel should show for the selection the host holds
NameOfSelection ==
    IF currentSelection # Null THEN Scene[currentSelection].name
    ELSE IF Len(selection) = 0 THEN "None" ELSE "Multiple Selected"

\* C17: once no preview export is pending and every selection-info message
\* has been delivered, the last one delivered names the node held in
\* currentSelection, or "None" / "Multiple Selected" when it is null.
C17_PanelShowsCurrentSelection ==
    ~SelectionInfoPending => frameName = NameOfSelection

\* C18: at most one evaluation call is in flight at any time.
C18_OneCallInFlight == Len(calls) <= 1
====
